---- MODULE Spec2Model ----
(***************************************************************************)
(* Model of the S3 -> local directory sync agent (src/main.py).            *)
(*                                                                         *)
(* Strings are sequences of one-character strings, paths are sequences of  *)
(* path components counted from the filesystem root (POSIX semantics of    *)
(* os.path and pathlib).  An object version is a number 1..MaxVer; its     *)
(* ETag is that number and its bytes are the pair <<key, version>>.        *)
(***************************************************************************)
EXTENDS Integers, Sequences, FiniteSets, TLC

\* ------------------------------------------------------------------------
\* Bounds of the model
\* ------------------------------------------------------------------------
MaxVer == 2
MaxKeyLen == 3
MaxCycles == 3
MaxRemoteOps == 1
MaxCrashes == 1
MaxFaults == 1
MaxWorkers == 2

\* ------------------------------------------------------------------------
\* Strings and paths
\* ------------------------------------------------------------------------
Chars == {"a", ".", "/", "\\"}

\* the destination root DESTINATION_DIR, here the directory /d
DestDir == << <<"d">> >>

PartSuffix == <<".", "p", "a", "r", "t">>

StartsWith(s, p) == Len(p) <= Len(s) /\ SubSeq(s, 1, Len(p)) = p

DropFirst(s, n) == SubSeq(s, n + 1, Len(s))

\* str.replace("\\", "/")
ReplaceBackslash(s) == [i \in 1..Len(s) |-> IF s[i] = "\\" THEN "/" ELSE s[i]]

\* str.split("/"): the components between the separators, empty ones kept
RECURSIVE SplitFrom(_, _, _, _)
SplitFrom(s, i, cur, out) ==
  IF i > Len(s) THEN Append(out, cur)
  ELSE IF s[i] = "/" THEN SplitFrom(s, i + 1, <<>>, Append(out, cur))
  ELSE SplitFrom(s, i + 1, Append(cur, s[i]), out)

Split(s) == SplitFrom(s, 1, <<>>, <<>>)

\* "/".join(comps)
RECURSIVE JoinSlash(_)
JoinSlash(comps) ==
  IF Len(comps) = 0 THEN <<>>
  ELSE IF Len(comps) = 1 THEN comps[1]
  ELSE comps[1] \o <<"/">> \o JoinSlash(Tail(comps))

DotDot == <<".", ".">>

\* posixpath.normpath: 0, 1 or 2 leading slashes are kept
InitialSlashes(path) ==
  IF ~StartsWith(path, <<"/">>) THEN 0
  ELSE IF StartsWith(path, <<"/", "/">>) /\ ~StartsWith(path, <<"/", "/", "/">>) THEN 2
  ELSE 1

\* the loop of posixpath.normpath over the components
RECURSIVE NormComps(_, _, _)
NormComps(comps, slashes, new) ==
  IF Len(comps) = 0 THEN new
  ELSE LET comp == Head(comps)
           rest == Tail(comps)
       IN IF comp = <<>> \/ comp = <<".">> THEN NormComps(rest, slashes, new)
          ELSE IF comp # DotDot
                  \/ (slashes = 0 /\ Len(new) = 0)
                  \/ (Len(new) > 0 /\ new[Len(new)] = DotDot)
               THEN NormComps(rest, slashes, Append(new, comp))
          ELSE IF Len(new) > 0
               THEN NormComps(rest, slashes, SubSeq(new, 1, Len(new) - 1))
          ELSE NormComps(rest, slashes, new)

normpath(path) ==
  IF Len(path) = 0 THEN <<".">>
  ELSE LET slashes == InitialSlashes(path)
           joined == JoinSlash(NormComps(Split(path), slashes, <<>>))
           full == [i \in 1..slashes |-> "/"] \o joined
       IN IF Len(full) = 0 THEN <<".">> ELSE full

\* pathlib: the components of a string, "" and "." dropped
PathParts(s) == SelectSeq(Split(s), LAMBDA c : c # <<>> /\ c # <<".">>)

\* pathlib: dest_dir / rel  (an absolute rel replaces dest_dir)
PathJoin(dir, rel) ==
  IF StartsWith(rel, <<"/">>) THEN PathParts(rel) ELSE dir \o PathParts(rel)

\* s3_key_to_local_path: the relative name after the prefix is stripped
StripPrefix(key, prefix) ==
  IF Len(prefix) > 0 /\ StartsWith(key, prefix)
  THEN LET rel == DropFirst(key, Len(prefix))
       IN IF StartsWith(rel, <<"/">>) THEN DropFirst(rel, 1) ELSE rel
  ELSE key

\* s3_key_to_local_path: [ok |-> FALSE] is the raised ValueError
s3_key_to_local_path(key, prefix, dest_dir) ==
  LET rel == normpath(ReplaceBackslash(StripPrefix(key, prefix)))
  IN IF StartsWith(rel, DotDot)
     THEN [ok |-> FALSE, path |-> <<>>]
     ELSE [ok |-> TRUE, path |-> PathJoin(dest_dir, rel)]

\* target_path.with_suffix(target_path.suffix + ".part"); a path with an
\* empty name (the filesystem root) raises ValueError
with_part_suffix(path) ==
  IF Len(path) = 0
  THEN [ok |-> FALSE, path |-> <<>>]
  ELSE [ok |-> TRUE,
        path |-> SubSeq(path, 1, Len(path) - 1) \o <<path[Len(path)] \o PartSuffix>>]

\* a path strictly inside the destination root
StrictlyInside(path, dest_dir) ==
  Len(path) > Len(dest_dir) /\ SubSeq(path, 1, Len(dest_dir)) = dest_dir


\* ------------------------------------------------------------------------
\* Configurations: load_env's result and the keys the bucket may hold.
\* The keys of a bucket are listed in the order list_objects_v2 yields
\* them (UTF-8 binary order: "." < "/" < "a").
\* ------------------------------------------------------------------------
Buckets ==
  { [prefix |-> <<>>,    keys |-> << <<"a">>, <<"a", ".", "p", "a", "r", "t">> >>],
    [prefix |-> <<>>,    keys |-> << <<"/", "a">>, <<"a">> >>],
    [prefix |-> <<>>,    keys |-> << <<".", ".", "/", "a">>, <<"a">> >>] }

Configs ==
  { [prefix |-> b.prefix, keys |-> b.keys, delete |-> d, workers |-> w] :
      b \in Buckets, d \in BOOLEAN, w \in 1..MaxWorkers }

\* a listing source whose pages yield the key "a" twice (with two ETags
\* when the object is overwritten between the pages)
DupBuckets == { [prefix |-> <<>>, keys |-> << <<"a">>, <<"a">> >>] }

DupConfigs ==
  { [prefix |-> b.prefix, keys |-> b.keys, delete |-> d, workers |-> w] :
      b \in DupBuckets, d \in BOOLEAN, w \in 1..MaxWorkers }

VARIABLES
  cfg,         \* load_env(): S3_PREFIX, DELETE_AFTER_DOWNLOAD, MAX_WORKERS; the bucket's keys
  remote,      \* the bucket: key -> version (0: no such object)
  files,       \* the local filesystem: path -> content
  data,        \* StateStore._data: key -> etag (0: no entry)
  disk,        \* state.json
  stop_event,  \* threading.Event
  pc,          \* where main() is
  cursor,      \* list_objects: number of keys the paginator has passed
  pages,       \* list_objects: the records yielded so far
  objects,     \* main: objects
  tasks,       \* main: to_download and the futures of the executor
  budget,      \* steps taken so far: cycles, remote changes, crashes, faults
  renamed,     \* history: <<key, etag>> whose tmp_path.replace(target_path) succeeded
  prev,        \* history: the previous cycle of this process
  pruned,      \* history: keys whose entry prune() removed, not listed since
  lost,        \* history: work items in flight before state.set at a crash
  pm,          \* an application of s3_key_to_local_path on its own
  dispatched   \* history: StateStore._data when the cycle's calls were submitted

vars == <<cfg, remote, files, data, disk, stop_event, pc, cursor, pages, objects,
          tasks, budget, renamed, prev, pruned, lost, pm, dispatched>>

KeySet == {cfg.keys[i] : i \in 1..Len(cfg.keys)}

\* s3_key_to_local_path(key, s3.prefix, dest_dir) of every key of every
\* bucket, computed once
MappedPaths ==
  [b \in Buckets \cup DupBuckets |->
     [k \in {b.keys[i] : i \in 1..Len(b.keys)} |->
        s3_key_to_local_path(k, b.prefix, DestDir)]]

\* target_path of worker_download
Target(key) == MappedPaths[[prefix |-> cfg.prefix, keys |-> cfg.keys]][key]

TmpOf(key) == with_part_suffix(Target(key).path)

PathsOf(c) ==
  UNION { LET t == s3_key_to_local_path(c.keys[i], c.prefix, DestDir)
              p == with_part_suffix(t.path)
          IN IF t.ok /\ p.ok THEN {t.path, p.path} ELSE {} : i \in 1..Len(c.keys) }

\* file contents: nothing, a partially written download, or the complete
\* bytes of version ver of object key
NoFile == [st |-> "none", key |-> <<>>, ver |-> 0]
Partial == [st |-> "partial", key |-> <<>>, ver |-> 0]
Bytes(key, ver) == [st |-> "full", key |-> key, ver |-> ver]

\* an existing directory: the destination root and its ancestors
IsDirectory(path) == Len(path) <= Len(DestDir) /\ SubSeq(DestDir, 1, Len(path)) = path

\* state.json: absent, or the JSON document of a mapping
NoDisk == [kind |-> "absent", data |-> <<>>]
MapDisk(d) == [kind |-> "map", data |-> d]

\* the JSON document [] (an array), as json.loads returns it
JsonArray == <<>>

\* state.json holds something else: it cannot be read (it is no UTF-8
\* text, or the read fails), it is no JSON document, or it is the JSON
\* document of an array
BadDisks ==
  { [kind |-> "unreadable", data |-> <<>>],
    [kind |-> "garbage", data |-> <<>>],
    [kind |-> "array", data |-> JsonArray] }

\* StateStore._load: _data is what json.loads returns; it stays {} when
\* the file does not exist or read_text or json.loads raises
Load(c, d) ==
  IF d.kind \in {"map", "array"} THEN d.data
  ELSE [k \in {c.keys[i] : i \in 1..Len(c.keys)} |-> 0]

NoPrev == [valid |-> FALSE, objs |-> <<>>, n |-> 0, ok |-> FALSE, failed |-> {}]

NoPm == [st |-> "idle", key |-> <<>>, prefix |-> <<>>,
         target |-> [ok |-> FALSE, path |-> <<>>], tmp |-> [ok |-> FALSE, path |-> <<>>]]

NoBudget == [cycles |-> 0, ops |-> 0, crashes |-> 0, faults |-> 0]

\* main() up to the polling loop, on a fresh destination directory
Init ==
  /\ cfg \in Configs
  /\ remote \in [{cfg.keys[i] : i \in 1..Len(cfg.keys)} -> 0..MaxVer]
  /\ files = [p \in PathsOf(cfg) |-> NoFile]
  /\ disk = NoDisk
  /\ data = Load(cfg, disk)
  /\ stop_event = FALSE
  /\ pc = "loop"
  /\ cursor = 0
  /\ pages = <<>>
  /\ objects = <<>>
  /\ tasks = <<>>
  /\ budget = NoBudget
  /\ renamed = {}
  /\ prev = NoPrev
  /\ pruned = {}
  /\ lost = {}
  /\ pm = NoPm
  /\ dispatched = <<>>


\* ------------------------------------------------------------------------
\* The environment: other writers of the bucket, signals, process restarts
\* ------------------------------------------------------------------------

\* another client uploads version v of object k
RemotePut(k, v) ==
  /\ budget.ops < MaxRemoteOps
  /\ remote[k] # v
  /\ remote' = [remote EXCEPT ![k] = v]
  /\ budget' = [budget EXCEPT !.ops = @ + 1]
  /\ UNCHANGED <<cfg, files, data, disk, stop_event, pc, cursor, pages, objects,
                 tasks, renamed, prev, pruned, lost, pm, dispatched>>

\* another client deletes object k
RemoteDelete(k) ==
  /\ budget.ops < MaxRemoteOps
  /\ remote[k] # 0
  /\ remote' = [remote EXCEPT ![k] = 0]
  /\ budget' = [budget EXCEPT !.ops = @ + 1]
  /\ UNCHANGED <<cfg, files, data, disk, stop_event, pc, cursor, pages, objects,
                 tasks, renamed, prev, pruned, lost, pm, dispatched>>

\* handle_signal
handle_signal ==
  /\ ~stop_event
  /\ stop_event' = TRUE
  /\ UNCHANGED <<cfg, remote, files, data, disk, pc, cursor, pages, objects,
                 tasks, budget, renamed, prev, pruned, lost, pm, dispatched>>

\* work items whose worker is past state.has and has not reached state.set
InFlightBeforeSet ==
  { <<tasks[i].key, tasks[i].etag>> :
      i \in {j \in DOMAIN tasks : tasks[j].pc \in {"dl", "downloading", "rename", "set"}} }

\* the process dies (or exits) at any point and is started again: main()
\* runs up to the polling loop, StateStore._load reads state.json; the
\* files and state.json are what they were
Crash ==
  /\ budget.crashes < MaxCrashes
  /\ budget' = [budget EXCEPT !.crashes = @ + 1]
  /\ data' = Load(cfg, disk)
  /\ stop_event' = FALSE
  /\ pc' = "loop"
  /\ cursor' = 0
  /\ pages' = <<>>
  /\ objects' = <<>>
  /\ tasks' = <<>>
  /\ prev' = NoPrev
  /\ lost' = lost \cup InFlightBeforeSet
  /\ dispatched' = <<>>
  /\ UNCHANGED <<cfg, remote, files, disk, renamed, pruned, pm>>

\* ------------------------------------------------------------------------
\* main(): the polling loop
\* ------------------------------------------------------------------------

\* mutant of LoopCheck: the loop condition does not look at stop_event
LoopCheck_IgnoresFlag ==
  /\ pc = "loop"
  /\ budget.cycles < MaxCycles
  /\ budget' = [budget EXCEPT !.cycles = @ + 1]
  /\ pc' = "listing"
  /\ cursor' = 0
  /\ pages' = <<>>
  /\ UNCHANGED <<cfg, remote, files, data, disk, stop_event, objects, tasks,
                 renamed, prev, pruned, lost, pm, dispatched>>

\* while not stop_event.is_set(): ... objects = list(s3.list_objects()) starts
LoopCheck ==
  /\ pc = "loop"
  /\ IF stop_event
     THEN /\ pc' = "stopped"
          /\ UNCHANGED <<cursor, pages, budget>>
     ELSE /\ budget.cycles < MaxCycles
          /\ budget' = [budget EXCEPT !.cycles = @ + 1]
          /\ pc' = "listing"
          /\ cursor' = 0
          /\ pages' = <<>>
  /\ UNCHANGED <<cfg, remote, files, data, disk, stop_event, objects, tasks,
                 renamed, prev, pruned, lost, pm, dispatched>>

\* S3Client.list_objects: the paginator passes the next key of the bucket
\* and yields its record if the object exists; after the last key the
\* generator is exhausted and objects is bound
ListPage ==
  /\ pc = "listing"
  /\ cursor < Len(cfg.keys)
  /\ LET k == cfg.keys[cursor + 1]
         got == IF remote[k] # 0
                THEN Append(pages, [Key |-> k, ETag |-> remote[k]])
                ELSE pages
     IN IF cursor + 1 = Len(cfg.keys)
        THEN /\ objects' = got
             /\ pages' = <<>>
             /\ cursor' = 0
             /\ pc' = "prune"
        ELSE /\ pages' = got
             /\ cursor' = cursor + 1
             /\ UNCHANGED <<objects, pc>>
  /\ UNCHANGED <<cfg, remote, files, data, disk, stop_event, tasks, budget,
                 renamed, prev, pruned, lost, pm, dispatched>>

\* mutant of ListFail: the State Store is pruned with the keys listed
\* before the error
ListFail_PrunesListed(kind) ==
  /\ pc = "listing"
  /\ budget.faults < MaxFaults
  /\ budget' = [budget EXCEPT !.faults = @ + 1]
  /\ data' = [k \in DOMAIN data |->
                IF k \in {pages[j].Key : j \in 1..Len(pages)} THEN data[k] ELSE 0]
  /\ pages' = <<>>
  /\ cursor' = 0
  /\ pc' = IF kind = "ClientError" THEN "sleep" ELSE "wait"
  /\ prev' = NoPrev
  /\ UNCHANGED <<cfg, remote, files, disk, stop_event, objects, tasks,
                 renamed, pruned, lost, pm, dispatched>>

\* mutant of ListFail: the exception is not caught and ends the loop
ListFail_EndsLoop(kind) ==
  /\ pc = "listing"
  /\ budget.faults < MaxFaults
  /\ budget' = [budget EXCEPT !.faults = @ + 1]
  /\ pages' = <<>>
  /\ cursor' = 0
  /\ pc' = "stopped"
  /\ prev' = NoPrev
  /\ UNCHANGED <<cfg, remote, files, data, disk, stop_event, objects, tasks,
                 renamed, pruned, lost, pm, dispatched>>

\* list_objects raises: a ClientError is logged and followed by
\* time.sleep(min(30, interval)), any other exception is logged; both end
\* in the finally clause
ListFail(kind) ==
  /\ pc = "listing"
  /\ budget.faults < MaxFaults
  /\ budget' = [budget EXCEPT !.faults = @ + 1]
  /\ pages' = <<>>
  /\ cursor' = 0
  /\ pc' = IF kind = "ClientError" THEN "sleep" ELSE "wait"
  /\ prev' = NoPrev
  /\ UNCHANGED <<cfg, remote, files, data, disk, stop_event, objects, tasks,
                 renamed, pruned, lost, pm, dispatched>>

SeenKeys(objs) == {objs[i].Key : i \in 1..Len(objs)}

\* mutant of prune: every entry is removed
prune_RemovesAll(d, keep_keys) == [k \in DOMAIN d |-> 0]

\* StateStore.prune
prune(d, keep_keys) == [k \in DOMAIN d |-> IF k \in keep_keys THEN d[k] ELSE 0]

\* seen_keys = {...}; state.prune(seen_keys).  When _data is no dict,
\* self._data.keys() raises AttributeError: main logs "Unexpected error"
\* and goes to the finally clause
Prune ==
  /\ pc = "prune"
  /\ IF data = JsonArray
     THEN /\ objects' = <<>>
          /\ prev' = NoPrev
          /\ pc' = "wait"
          /\ UNCHANGED <<data, pruned>>
     ELSE /\ data' = prune(data, SeenKeys(objects))
          /\ pruned' = pruned \cup
                         {k \in KeySet : data[k] # 0 /\ k \notin SeenKeys(objects)}
          /\ pc' = "diff"
          /\ UNCHANGED <<objects, prev>>
  /\ UNCHANGED <<cfg, remote, files, disk, stop_event, cursor, pages,
                 tasks, budget, renamed, lost, pm, dispatched>>

\* StateStore.has
has(d, key, etag) == d[key] = etag

NewTask(obj) ==
  [key |-> obj.Key, etag |-> obj.ETag, pc |-> "queued", err |-> "none",
   logged |-> FALSE, del |-> FALSE]

\* to_download: the listed objects state.has does not know, in listing order
ToDownload(objs, d) == SelectSeq(objs, LAMBDA o : ~has(d, o.Key, o.ETag))

\* the filter loop, and executor.submit for every object of to_download
Diff ==
  /\ pc = "diff"
  /\ LET to_download == ToDownload(objects, data)
     IN tasks' = [i \in 1..Len(to_download) |-> NewTask(to_download[i])]
  /\ lost' = lost \ {<<objects[i].Key, objects[i].ETag>> : i \in 1..Len(objects)}
  /\ dispatched' = data
  /\ pc' = "fetch"
  /\ UNCHANGED <<cfg, remote, files, data, disk, stop_event, cursor, pages,
                 objects, budget, renamed, prev, pruned, pm>>

\* mutant of Join: the controller leaves the fetch phase without waiting
\* for the executor (shutdown(wait=False)); the calls go on running
Join_BeforeWorkersEnd ==
  /\ pc = "fetch"
  /\ prev' = [valid |-> TRUE,
              objs |-> objects,
              n |-> Len(tasks),
              ok |-> \A i \in DOMAIN tasks : tasks[i].err = "none",
              failed |-> {}]
  /\ pruned' = pruned \ SeenKeys(objects)
  /\ objects' = <<>>
  /\ dispatched' = <<>>
  /\ pc' = "wait"
  /\ UNCHANGED <<cfg, remote, files, data, disk, stop_event, cursor, pages,
                 tasks, budget, renamed, lost, pm>>

\* as_completed has yielded every future and the executor has shut down
\* (or to_download was empty); the finally clause is entered
Join ==
  /\ pc = "fetch"
  /\ \A i \in DOMAIN tasks : tasks[i].pc = "done"
  /\ prev' = [valid |-> TRUE,
              objs |-> objects,
              n |-> Len(tasks),
              ok |-> \A i \in DOMAIN tasks : tasks[i].err = "none",
              failed |-> { [Key |-> tasks[i].key, ETag |-> tasks[i].etag] :
                            i \in {j \in DOMAIN tasks :
                                     tasks[j].err \in {"map", "fetch", "rename"}} }]
  /\ pruned' = pruned \ SeenKeys(objects)
  /\ tasks' = <<>>
  /\ objects' = <<>>
  /\ dispatched' = <<>>
  /\ pc' = "wait"
  /\ UNCHANGED <<cfg, remote, files, data, disk, stop_event, cursor, pages,
                 budget, renamed, lost, pm>>

\* time.sleep(min(30, interval)) returns
SleepDone ==
  /\ pc = "sleep"
  /\ pc' = "wait"
  /\ UNCHANGED <<cfg, remote, files, data, disk, stop_event, cursor, pages,
                 objects, tasks, budget, renamed, prev, pruned, lost, pm, dispatched>>

\* stop_event.wait(interval) returns: the interval has elapsed or the event is set
WaitDone ==
  /\ pc = "wait"
  /\ pc' = "loop"
  /\ UNCHANGED <<cfg, remote, files, data, disk, stop_event, cursor, pages,
                 objects, tasks, budget, renamed, prev, pruned, lost, pm, dispatched>>


\* ------------------------------------------------------------------------
\* worker_download, one call per task of the executor
\* ------------------------------------------------------------------------

Running(i) == tasks[i].pc \notin {"queued", "done"}

\* ThreadPoolExecutor: at most max_workers calls run, taken in submit order
CanStart(i) ==
  /\ pc = "fetch"
  /\ i \in DOMAIN tasks
  /\ tasks[i].pc = "queued"
  /\ Cardinality({j \in DOMAIN tasks : Running(j)}) < cfg.workers
  /\ \A j \in 1..(i - 1) : tasks[j].pc # "queued"

\* the except clause of worker_download: the error is logged, the
\* temporary file is removed if it exists, False is returned
Failed(i, stage) ==
  /\ tasks' = [tasks EXCEPT ![i] = [@ EXCEPT !.pc = "done", !.err = stage, !.logged = TRUE]]
  /\ files' = [files EXCEPT ![TmpOf(tasks[i].key).path] = NoFile]

\* state.has, then target_path and tmp_path: a known object is skipped, a
\* ValueError of s3_key_to_local_path or with_suffix leaves the call (it
\* is raised before the try statement)
WorkerBegin(i) ==
  /\ CanStart(i)
  /\ LET t == tasks[i]
     IN IF has(data, t.key, t.etag)
        THEN tasks' = [tasks EXCEPT ![i] = [@ EXCEPT !.pc = "done", !.err = "skip"]]
        ELSE IF ~Target(t.key).ok \/ ~TmpOf(t.key).ok
        THEN tasks' = [tasks EXCEPT ![i] = [@ EXCEPT !.pc = "done", !.err = "map"]]
        ELSE tasks' = [tasks EXCEPT ![i].pc = "dl"]
  /\ UNCHANGED <<cfg, remote, files, data, disk, stop_event, pc, cursor, pages,
                 objects, budget, renamed, prev, pruned, lost, pm, dispatched>>

\* S3Client.download_to_temp begins: the file at tmp_path is created and
\* receives the first bytes (the except clause of worker_download removes
\* such a partial file)
DownloadStart(i) ==
  /\ i \in DOMAIN tasks
  /\ tasks[i].pc = "dl"
  /\ files' = [files EXCEPT ![TmpOf(tasks[i].key).path] = Partial]
  /\ tasks' = [tasks EXCEPT ![i].pc = "downloading"]
  /\ UNCHANGED <<cfg, remote, data, disk, stop_event, pc, cursor, pages,
                 objects, budget, renamed, prev, pruned, lost, pm, dispatched>>

\* mutant of DownloadEnd: the etag is recorded as soon as the download
\* returns, before the rename
DownloadEnd_RecordsEarly(i) ==
  /\ i \in DOMAIN tasks
  /\ tasks[i].pc = "downloading"
  /\ remote[tasks[i].key] # 0
  /\ files' = [files EXCEPT ![TmpOf(tasks[i].key).path] =
                              Bytes(tasks[i].key, remote[tasks[i].key])]
  /\ data' = [data EXCEPT ![tasks[i].key] = tasks[i].etag]
  /\ tasks' = [tasks EXCEPT ![i].pc = "rename"]
  /\ UNCHANGED <<cfg, remote, disk, stop_event, pc, cursor, pages,
                 objects, budget, renamed, prev, pruned, lost, pm, dispatched>>

\* S3Client.download_to_temp returns: tmp_path holds the bytes the bucket
\* has for the key now
DownloadEnd(i) ==
  /\ i \in DOMAIN tasks
  /\ tasks[i].pc = "downloading"
  /\ remote[tasks[i].key] # 0
  /\ files' = [files EXCEPT ![TmpOf(tasks[i].key).path] =
                              Bytes(tasks[i].key, remote[tasks[i].key])]
  /\ tasks' = [tasks EXCEPT ![i].pc = "rename"]
  /\ UNCHANGED <<cfg, remote, data, disk, stop_event, pc, cursor, pages,
                 objects, budget, renamed, prev, pruned, lost, pm, dispatched>>

\* S3Client.download_to_temp raises: the object is gone (404), or the
\* network or the local disk fails
DownloadFail(i) ==
  /\ i \in DOMAIN tasks
  /\ tasks[i].pc \in {"dl", "downloading"}
  /\ IF tasks[i].pc = "downloading" /\ remote[tasks[i].key] = 0
     THEN UNCHANGED budget
     ELSE /\ budget.faults < MaxFaults
          /\ budget' = [budget EXCEPT !.faults = @ + 1]
  /\ Failed(i, "fetch")
  /\ UNCHANGED <<cfg, remote, data, disk, stop_event, pc, cursor, pages,
                 objects, renamed, prev, pruned, lost, pm, dispatched>>

\* tmp_path.replace(target_path) cannot succeed: no file at tmp_path, or
\* target_path is a directory
CannotReplace(key) ==
  \/ files[TmpOf(key).path].st = "none"
  \/ IsDirectory(Target(key).path)

\* ensure_dir(target_path.parent); tmp_path.replace(target_path)
Replace(i) ==
  /\ i \in DOMAIN tasks
  /\ tasks[i].pc = "rename"
  /\ ~CannotReplace(tasks[i].key)
  /\ LET target_path == Target(tasks[i].key).path
         tmp_path == TmpOf(tasks[i].key).path
     IN files' = [files EXCEPT ![target_path] = files[tmp_path], ![tmp_path] = NoFile]
  /\ renamed' = renamed \cup {<<tasks[i].key, tasks[i].etag>>}
  /\ tasks' = [tasks EXCEPT ![i].pc = "set"]
  /\ UNCHANGED <<cfg, remote, data, disk, stop_event, pc, cursor, pages,
                 objects, budget, prev, pruned, lost, pm, dispatched>>

\* ensure_dir or replace raises
ReplaceFail(i) ==
  /\ i \in DOMAIN tasks
  /\ tasks[i].pc = "rename"
  /\ IF CannotReplace(tasks[i].key)
     THEN UNCHANGED budget
     ELSE /\ budget.faults < MaxFaults
          /\ budget' = [budget EXCEPT !.faults = @ + 1]
  /\ Failed(i, "rename")
  /\ UNCHANGED <<cfg, remote, data, disk, stop_event, pc, cursor, pages,
                 objects, renamed, prev, pruned, lost, pm, dispatched>>

\* mutant of set: the mapping is replaced by one that holds the new entry
\* only, so that the entries stored by other calls are lost
set_ReplacesMapping(d, key, etag) == [k \in DOMAIN d |-> IF k = key THEN etag ELSE 0]

\* mutant of set: the entry is not stored
set_StoresNothing(d, key, etag) == d

\* StateStore.set
set(d, key, etag) == [d EXCEPT ![key] = etag]

\* state.set(key, etag)
StateSet(i) ==
  /\ i \in DOMAIN tasks
  /\ tasks[i].pc = "set"
  /\ data' = set(data, tasks[i].key, tasks[i].etag)
  /\ tasks' = [tasks EXCEPT ![i].pc = "save"]
  /\ UNCHANGED <<cfg, remote, files, disk, stop_event, pc, cursor, pages,
                 objects, budget, renamed, prev, pruned, lost, pm, dispatched>>

\* the step of worker_download after a successful state.save()
AfterSave(c) == IF c.delete THEN "delete" ELSE "done"

\* state.save(): state.tmp is written and renamed onto state.json
StateSave(i) ==
  /\ i \in DOMAIN tasks
  /\ tasks[i].pc = "save"
  /\ disk' = MapDisk(data)
  /\ tasks' = [tasks EXCEPT ![i].pc = AfterSave(cfg)]
  /\ UNCHANGED <<cfg, remote, files, data, stop_event, pc, cursor, pages,
                 objects, budget, renamed, prev, pruned, lost, pm, dispatched>>

\* mutant of StateSaveFail: the failure of state.save() is swallowed and
\* worker_download goes on to the deletion
StateSaveFail_GoesOn(i) ==
  /\ i \in DOMAIN tasks
  /\ tasks[i].pc = "save"
  /\ budget.faults < MaxFaults
  /\ budget' = [budget EXCEPT !.faults = @ + 1]
  /\ tasks' = [tasks EXCEPT ![i] = [@ EXCEPT !.pc = AfterSave(cfg), !.logged = TRUE]]
  /\ UNCHANGED <<cfg, remote, files, data, disk, stop_event, pc, cursor, pages,
                 objects, renamed, prev, pruned, lost, pm, dispatched>>

\* state.save() raises (state.json keeps its content)
StateSaveFail(i) ==
  /\ i \in DOMAIN tasks
  /\ tasks[i].pc = "save"
  /\ budget.faults < MaxFaults
  /\ budget' = [budget EXCEPT !.faults = @ + 1]
  /\ Failed(i, "save")
  /\ UNCHANGED <<cfg, remote, data, disk, stop_event, pc, cursor, pages,
                 objects, renamed, prev, pruned, lost, pm, dispatched>>

\* s3.delete_object(key) succeeds
DeleteObject(i) ==
  /\ i \in DOMAIN tasks
  /\ tasks[i].pc = "delete"
  /\ remote' = [remote EXCEPT ![tasks[i].key] = 0]
  /\ tasks' = [tasks EXCEPT ![i] = [@ EXCEPT !.pc = "done", !.del = TRUE]]
  /\ UNCHANGED <<cfg, files, data, disk, stop_event, pc, cursor, pages,
                 objects, budget, renamed, prev, pruned, lost, pm, dispatched>>

\* s3.delete_object(key) raises: a ClientError is a warning and True is
\* returned, any other exception reaches the except clause of worker_download
DeleteFail(i, kind) ==
  /\ i \in DOMAIN tasks
  /\ tasks[i].pc = "delete"
  /\ budget.faults < MaxFaults
  /\ budget' = [budget EXCEPT !.faults = @ + 1]
  /\ IF kind = "ClientError"
     THEN /\ tasks' = [tasks EXCEPT ![i] = [@ EXCEPT !.pc = "done", !.del = TRUE]]
          /\ UNCHANGED files
     ELSE /\ tasks' = [tasks EXCEPT ![i] = [@ EXCEPT !.pc = "done", !.del = TRUE,
                                                      !.err = "delete", !.logged = TRUE]]
          /\ files' = [files EXCEPT ![TmpOf(tasks[i].key).path] = NoFile]
  /\ UNCHANGED <<cfg, remote, data, disk, stop_event, pc, cursor, pages,
                 objects, renamed, prev, pruned, lost, pm, dispatched>>

\* a call of worker_download that has executed state.set
Stored(t) ==
  \/ t.pc \in {"save", "delete"}
  \/ t.pc = "done" /\ t.err \in {"none", "save", "delete"}

\* the mapping left by the calls ts[i], ts[i+1], ... run one after another
\* on the mapping d, each with the outcome it has in ts
RECURSIVE RunInOrder(_, _, _)
RunInOrder(d, ts, i) ==
  IF i > Len(ts) THEN d
  ELSE IF has(d, ts[i].key, ts[i].etag) \/ ~Stored(ts[i])
       THEN RunInOrder(d, ts, i + 1)
       ELSE RunInOrder(set(d, ts[i].key, ts[i].etag), ts, i + 1)

Worker(i) ==
  \/ WorkerBegin(i)
  \/ DownloadStart(i)
  \/ DownloadEnd(i)
  \/ DownloadFail(i)
  \/ Replace(i)
  \/ ReplaceFail(i)
  \/ StateSet(i)
  \/ StateSave(i)
  \/ StateSaveFail(i)
  \/ DeleteObject(i)
  \/ \E kind \in {"ClientError", "Exception"} : DeleteFail(i, kind)

Next ==
  \/ \E k \in KeySet, v \in 1..MaxVer : RemotePut(k, v)
  \/ \E k \in KeySet : RemoteDelete(k)
  \/ handle_signal
  \/ Crash
  \/ LoopCheck
  \/ ListPage
  \/ \E kind \in {"ClientError", "Exception"} : ListFail(kind)
  \/ Prune
  \/ Diff
  \/ Join
  \/ SleepDone
  \/ WaitDone
  \/ \E i \in DOMAIN tasks : Worker(i)

Spec == Init /\ [][Next]_vars

\* ------------------------------------------------------------------------
\* One run of the process, from main() to its end, that is not killed:
\* the listing, the sleeps and waits and every call of worker_download
\* that can take a step eventually take it
\* ------------------------------------------------------------------------
RunNext ==
  \/ \E k \in KeySet, v \in 1..MaxVer : RemotePut(k, v)
  \/ \E k \in KeySet : RemoteDelete(k)
  \/ handle_signal
  \/ LoopCheck
  \/ ListPage
  \/ \E kind \in {"ClientError", "Exception"} : ListFail(kind)
  \/ Prune
  \/ Diff
  \/ Join
  \/ SleepDone
  \/ WaitDone
  \/ \E i \in DOMAIN tasks : Worker(i)

RunFairness ==
  /\ WF_vars(LoopCheck)
  /\ WF_vars(ListPage)
  /\ WF_vars(Prune)
  /\ WF_vars(Diff)
  /\ WF_vars(Join)
  /\ WF_vars(SleepDone)
  /\ WF_vars(WaitDone)
  /\ WF_vars(\E i \in DOMAIN tasks : Worker(i))

RunSpec == Init /\ [][RunNext]_vars /\ RunFairness

\* ------------------------------------------------------------------------
\* The program on a listing source that yields a key more than once
\* ------------------------------------------------------------------------
DupInit ==
  /\ cfg \in DupConfigs
  /\ remote \in [{cfg.keys[i] : i \in 1..Len(cfg.keys)} -> 0..MaxVer]
  /\ files = [p \in PathsOf(cfg) |-> NoFile]
  /\ disk = NoDisk
  /\ data = Load(cfg, disk)
  /\ stop_event = FALSE
  /\ pc = "loop"
  /\ cursor = 0
  /\ pages = <<>>
  /\ objects = <<>>
  /\ tasks = <<>>
  /\ budget = NoBudget
  /\ renamed = {}
  /\ prev = NoPrev
  /\ pruned = {}
  /\ lost = {}
  /\ pm = NoPm
  /\ dispatched = <<>>

DupSpec == DupInit /\ [][Next]_vars

\* ------------------------------------------------------------------------
\* The program started on a destination directory whose state.json is
\* absent or is not the document of a mapping
\* ------------------------------------------------------------------------
LoadInit ==
  /\ cfg \in Configs
  /\ remote \in [{cfg.keys[i] : i \in 1..Len(cfg.keys)} -> 0..MaxVer]
  /\ files = [p \in PathsOf(cfg) |-> NoFile]
  /\ disk \in {NoDisk} \cup BadDisks
  /\ data = Load(cfg, disk)
  /\ stop_event = FALSE
  /\ pc = "loop"
  /\ cursor = 0
  /\ pages = <<>>
  /\ objects = <<>>
  /\ tasks = <<>>
  /\ budget = NoBudget
  /\ renamed = {}
  /\ prev = NoPrev
  /\ pruned = {}
  /\ lost = {}
  /\ pm = NoPm
  /\ dispatched = <<>>

LoadSpec == LoadInit /\ [][Next]_vars

\* ------------------------------------------------------------------------
\* s3_key_to_local_path on its own: every key up to MaxKeyLen over Chars,
\* with no prefix, a prefix and a prefix that ends in the separator
\* ------------------------------------------------------------------------
RECURSIVE StringsUpTo(_)
StringsUpTo(n) ==
  IF n = 0 THEN {<<>>}
  ELSE LET shorter == StringsUpTo(n - 1)
       IN shorter \cup {Append(t, c) : t \in shorter, c \in Chars}

Prefixes == {<<>>, <<"a">>, <<"a", "/">>}

PathInit ==
  /\ pm \in { [st |-> "input", key |-> k, prefix |-> px,
               target |-> NoPm.target, tmp |-> NoPm.tmp] :
                k \in StringsUpTo(MaxKeyLen) \ {<<>>}, px \in Prefixes }
  /\ cfg = [prefix |-> pm.prefix, keys |-> <<pm.key>>, delete |-> FALSE, workers |-> 1]
  /\ remote = [k \in {pm.key} |-> 0]
  /\ files = [p \in PathsOf(cfg) |-> NoFile]
  /\ disk = NoDisk
  /\ data = Load(cfg, disk)
  /\ stop_event = FALSE
  /\ pc = "loop"
  /\ cursor = 0
  /\ pages = <<>>
  /\ objects = <<>>
  /\ tasks = <<>>
  /\ budget = NoBudget
  /\ renamed = {}
  /\ prev = NoPrev
  /\ pruned = {}
  /\ lost = {}
  /\ dispatched = <<>>

\* target_path = s3_key_to_local_path(key, s3.prefix, dest_dir)
MapPath ==
  /\ pm.st = "input"
  /\ pm' = [pm EXCEPT !.st = "mapped",
                      !.target = s3_key_to_local_path(pm.key, pm.prefix, DestDir)]
  /\ UNCHANGED <<cfg, remote, files, data, disk, stop_event, pc, cursor, pages,
                 objects, tasks, budget, renamed, prev, pruned, lost, dispatched>>

\* tmp_path = target_path.with_suffix(target_path.suffix + ".part")
TmpPath ==
  /\ pm.st = "mapped"
  /\ pm.target.ok
  /\ pm' = [pm EXCEPT !.st = "done", !.tmp = with_part_suffix(pm.target.path)]
  /\ UNCHANGED <<cfg, remote, files, data, disk, stop_event, pc, cursor, pages,
                 objects, tasks, budget, renamed, prev, pruned, lost, dispatched>>

PathNext == MapPath \/ TmpPath

PathSpec == PathInit /\ [][PathNext]_vars


\* ------------------------------------------------------------------------
\* Properties
\* ------------------------------------------------------------------------

Persisted == Load(cfg, disk)

C2_CrashLeavesNoRecord ==
  \A item \in lost :
    /\ Persisted[item[1]] # item[2]
    /\ ~has(data, item[1], item[2])

\* C3: the target path of a listed key never holds partially written
\* content.
C3_NoPartialTarget ==
  \A j \in 1..Len(objects) :
    Target(objects[j].Key).ok => files[Target(objects[j].Key).path].st # "partial"

\* C4: s3_key_to_local_path raises or returns a path strictly inside the
\* destination root, and so does the temporary path derived from it.
C4_PathInsideRoot ==
  /\ (pm.st \in {"mapped", "done"} /\ pm.target.ok)
        => StrictlyInside(pm.target.path, DestDir)
  /\ (pm.st = "done" /\ pm.tmp.ok) => StrictlyInside(pm.tmp.path, DestDir)

C6_PrunedThenRefetched ==
  /\ pc \in {"diff", "fetch"} => \A k \in KeySet : data[k] # 0 => k \in SeenKeys(objects)
  /\ pc = "fetch" =>
       \A j \in 1..Len(objects) :
         objects[j].Key \in pruned =>
           \E i \in DOMAIN tasks :
             /\ tasks[i].key = objects[j].Key
             /\ tasks[i].etag = objects[j].ETag
             /\ tasks[i].err # "skip"

\* C7: when a cycle whose listing succeeded has run to its end, state.json
\* holds the in-memory mapping.
C7_PersistedAtCycleEnd ==
  (pc = "wait" /\ prev.valid) => Persisted = data

\* C8: delete_object is issued for a work item only when its rename has
\* completed and state.json holds its entry; a work item whose fetch,
\* rename or save failed issues no delete.
C8_DeleteOnlyAfterPersist ==
  \A i \in DOMAIN tasks :
    (tasks[i].pc = "delete" \/ tasks[i].del) =>
      /\ cfg.delete
      /\ tasks[i].err \in {"none", "delete"}
      /\ <<tasks[i].key, tasks[i].etag>> \in renamed
      /\ disk.kind = "map"
      /\ Persisted[tasks[i].key] = tasks[i].etag

\* C8 witness: delete_object has been issued
C8_Witness == \E i \in DOMAIN tasks : tasks[i].del

\* C9: a work item that failed in path mapping, fetch or rename has been
\* logged as failed and has left the State Store entry of its key as it
\* was, the executor goes on serving the cycle's work items, and the item
\* is a work item of the next cycle if the listing is the same.
C9_ItemFailureLoggedAndRetried ==
  /\ \A i \in DOMAIN tasks :
       (tasks[i].pc = "done" /\ tasks[i].err \in {"map", "fetch", "rename"}) =>
         /\ tasks[i].logged
         /\ ~has(data, tasks[i].key, tasks[i].etag)
         /\ pc = "fetch"
  /\ (pc = "fetch" /\ prev.valid /\ prev.objs = objects) =>
       \A o \in prev.failed : \E i \in DOMAIN tasks : tasks[i].key = o.Key /\ tasks[i].etag = o.ETag

\* C10: a listing error changes neither the State Store nor the files and
\* dispatches no fetch, whatever was listed before it; the controller goes
\* to a wait, and every cycle starts its listing from nothing.
C10_ListErrorAbortsCycle ==
  /\ [](pc \in {"loop", "sleep", "wait"} => (pages = <<>> /\ cursor = 0 /\ tasks = <<>>))
  /\ [][(pc = "listing" /\ pc' \in {"sleep", "wait"}) =>
          (data' = data /\ disk' = disk /\ files' = files /\ remote' = remote
           /\ pruned' = pruned /\ tasks' = <<>>)]_vars
  /\ [][(pc = "loop" /\ pc' = "listing") => (pages' = <<>> /\ cursor' = 0)]_vars

\* C10 witness: the listing has failed while the State Store holds an
\* entry of a key the bucket no longer has
C10_Witness ==
  /\ pc = "sleep"
  /\ \E k \in KeySet : data[k] # 0 /\ remote[k] = 0

\* C11: the cancellation flag is never set while the controller is blocked
\* in a wait that only the elapse of its interval ends (time.sleep); every
\* wait between two cycles is stop_event.wait.
C11_NoBlindWaitWhenCancelled == ~(stop_event /\ pc = "sleep")

\* C12: while the controller is not in its fetch phase (it waits, checks
\* the loop condition, lists, prunes or diffs) no worker_download is
\* running or queued, and the fetch phase is left only when every
\* dispatched call has finished.
C12_CyclesNeverOverlap ==
  /\ [](pc # "fetch" => \A i \in DOMAIN tasks : tasks[i].pc = "done")
  /\ [][(pc = "fetch" /\ pc' \in {"wait", "sleep", "listing", "prune", "diff"}) =>
          \A i \in DOMAIN tasks : tasks[i].pc = "done"]_vars

\* C12 witness: a cycle lists after a cycle of the same process that
\* dispatched two calls to two workers, one of which raised
C12_Witness ==
  /\ pc = "listing"
  /\ cfg.workers = 2
  /\ prev.valid /\ prev.n = 2 /\ ~prev.ok

\* C13: in a run that is not killed, once the cancellation flag is set the
\* controller eventually leaves the polling loop; having left it, it starts
\* nothing again; and with the flag set the fetch phase is still left only
\* when every dispatched call has finished.
C13_CancelledEventuallyStopped ==
  /\ stop_event ~> (pc = "stopped")
  /\ [][pc = "stopped" => pc' = "stopped"]_vars
  /\ [][(stop_event /\ pc = "fetch" /\ pc' # "fetch") =>
          \A i \in DOMAIN tasks : tasks[i].pc = "done"]_vars

\* C13 witness: the controller has stopped after a cycle that dispatched
\* two calls
C13_Witness ==
  /\ pc = "stopped"
  /\ stop_event
  /\ prev.valid /\ prev.n = 2

\* C14: the controller is outside its polling loop only with the
\* cancellation flag set, and it leaves the loop only in a step that finds
\* the flag set: no error of a listing, a worker or the State Store ends it.
C14_LoopLeftOnlyOnCancel ==
  /\ [](pc = "stopped" => stop_event)
  /\ [][pc' = "stopped" => (stop_event /\ pc \in {"loop", "stopped"})]_vars

\* C14 witness: the same process lists again after a cycle in which a work
\* item failed and a fault was raised
C14_Witness ==
  /\ pc = "listing"
  /\ ~stop_event
  /\ budget.crashes = 0
  /\ budget.faults = MaxFaults
  /\ prev.valid /\ prev.failed # {}

\* C15: while the calls of worker_download of a cycle run on work items
\* with pairwise distinct keys, in whatever order their steps interleave,
\* the in-memory mapping is the one the same calls leave when they run one
\* after another in submit order, and the entry of every call that has
\* executed state.set is in it.
C15_ConcurrentAsSequential ==
  (pc = "fetch" /\ \A i, j \in DOMAIN tasks : tasks[i].key = tasks[j].key => i = j) =>
    /\ data = RunInOrder(dispatched, tasks, 1)
    /\ \A i \in DOMAIN tasks : Stored(tasks[i]) => data[tasks[i].key] = tasks[i].etag

\* C15 witness: two workers have served two work items, both have stored
\* their entry, and the mapping held an older entry for one of them
C15_Witness ==
  /\ pc = "fetch"
  /\ cfg.workers = 2
  /\ Len(tasks) = 2
  /\ \A i \in DOMAIN tasks : tasks[i].pc = "done" /\ tasks[i].err = "none"
  /\ \E i \in DOMAIN tasks : dispatched[tasks[i].key] # 0

\* C16: a step of state.prune(seen_keys) removes the entries of the keys
\* that are not in seen_keys, leaves every other entry as it was, and
\* changes neither state.json nor any file nor the bucket.
C16_PruneChangesOnlyStaleEntries ==
  [][(pc = "prune" /\ pc' = "diff") =>
       /\ \A k \in KeySet :
            data'[k] = IF k \in SeenKeys(objects) THEN data[k] ELSE 0
       /\ disk' = disk
       /\ files' = files
       /\ remote' = remote]_vars

\* C16 witness: prune has removed the entry of a key that is not listed
\* and kept the entry of a listed key; state.json still holds the removed
\* entry and the file of the removed key is in place
C16_Witness ==
  /\ pc = "diff"
  /\ \E k \in pruned :
       /\ k \notin SeenKeys(objects)
       /\ data[k] = 0
       /\ Persisted[k] # 0
       /\ files[Target(k).path].st = "full"
  /\ \E k \in SeenKeys(objects) : data[k] # 0

\* C17: when every call of worker_download of a cycle has returned True,
\* the State Store holds, for each listed key, the ETag of the key's last
\* record in the listing.
C17_LastListedWins ==
  (/\ pc = "fetch"
   /\ \A i \in DOMAIN tasks : tasks[i].pc = "done" /\ tasks[i].err = "none") =>
    \A j \in 1..Len(objects) :
      (\A l \in (j + 1)..Len(objects) : objects[l].Key # objects[j].Key) =>
        data[objects[j].Key] = objects[j].ETag

\* C18: among the keys a listing under the prefix can hold (they start with
\* it), no other key that s3_key_to_local_path accepts has the target path
\* of the mapped key, and the temporary ".part" path of the mapped key is
\* the target path of no other key.
C18_PathMapInjective ==
  (pm.st = "done" /\ pm.target.ok /\ pm.tmp.ok /\ StartsWith(pm.key, pm.prefix)) =>
    \A other \in (StringsUpTo(MaxKeyLen) \cup {pm.key \o PartSuffix}) \ {<<>>, pm.key} :
      LET t == s3_key_to_local_path(other, pm.prefix, DestDir)
      IN (StartsWith(other, pm.prefix) /\ t.ok) =>
           (t.path # pm.target.path /\ t.path # pm.tmp.path)

\* C19: whatever state.json held at startup, the State Store a cycle prunes
\* and diffs against is a mapping from keys to ETags; and in the first
\* cycle of a process started on a state.json that is not the document of
\* a mapping, every listed object is a work item that is not skipped.
C19_BadStateFileLoadsEmpty ==
  /\ pc \in {"prune", "diff", "fetch"} => data \in [KeySet -> 0..MaxVer]
  /\ (pc = "fetch" /\ disk.kind # "map" /\ budget.cycles = 1 /\ budget.crashes = 0) =>
       \A j \in 1..Len(objects) :
         \E i \in DOMAIN tasks :
           /\ tasks[i].key = objects[j].Key
           /\ tasks[i].etag = objects[j].ETag
           /\ tasks[i].err # "skip"

\* C20: a step of delete_object that removes the object of a key from the
\* bucket finds, at the target path of the key, the bytes of the version
\* it removes.
C20_DeletesOnlyMirroredVersion ==
  [][\A i \in DOMAIN tasks :
       (/\ tasks[i].pc = "delete"
        /\ i \in DOMAIN tasks'
        /\ tasks'[i].pc = "done"
        /\ remote[tasks[i].key] # 0
        /\ remote'[tasks[i].key] = 0) =>
         files[Target(tasks[i].key).path] = Bytes(tasks[i].key, remote[tasks[i].key])]_vars

====
